---------------------------- MODULE Spec2Model ----------------------------
(* A model of the Zilliqa JSON-RPC client of zilpay-core:                  *)
(*   zilliqa/src/json_rpc/zil.rs  ZilliqaJsonRPC::{new, from_vec,          *)
(*                                bootstrap, reqwest}                      *)
(* The client is a list of node endpoints; bootstrap builds the list from  *)
(* the ssnlist sub-state read through a seed node, reqwest walks the list  *)
(* and posts the payload to one node after the other.                      *)
EXTENDS Integers, Sequences, FiniteSets, TLC

(***************************************************************************)
(* Bounds of the model.                                                    *)
(***************************************************************************)
\* longest node list with arbitrary endpoints and arbitrary node replies
MaxNodes == 3
\* longest node list whose nodes all give the same reply
MaxUniform == 7
\* most members of the ssnlist object of a bootstrap reply
MaxMembers == 2

(***************************************************************************)
(* Program constants.                                                      *)
(***************************************************************************)
\* zil.rs:76  const MAX_ERROR: usize = 5
MAX_ERROR == 5
\* zil.rs:62  arr.get(5): zero-based index of the node url in `arguments`
URL_INDEX == 5
\* zil.rs:22  config::MAIN_URL
MAIN_URL == "main"

Endpoints == {MAIN_URL, "u1"}
\* the text of a transport or decode error (e.to_string())
Msgs == {"e1", "e2"}
\* the values a response body decodes to
Decoded == {"v1", "v2"}

(***************************************************************************)
(* ZilliqaErrors: a variant and, for the variants that carry one, the      *)
(* error text.  Two errors are equal when variant and text are equal.      *)
(***************************************************************************)
Err(kind, msg) == [kind |-> kind, msg |-> msg]
NetowrkIsDown == Err("NetowrkIsDown", "")
InvalidRPCReq(e) == Err("InvalidRPCReq", e)
InvalidJson(e) == Err("InvalidJson", e)
BadRequest == Err("BadRequest", "")
FailToParseResponse == Err("FailToParseResponse", "")

(***************************************************************************)
(* serde_json::Value.  Every value is a record of the same shape so that   *)
(* any two values can be compared: t is the JSON type, s the text of a     *)
(* string or number, a the elements of an array, o the members of an       *)
(* object as <<key, value>> pairs in the object's iteration order.         *)
(***************************************************************************)
J(t, s, a, o) == [t |-> t, s |-> s, a |-> a, o |-> o]
JNull == J("null", "", <<>>, <<>>)
JStr(s) == J("str", s, <<>>, <<>>)
JNum(s) == J("num", s, <<>>, <<>>)
JArr(a) == J("arr", "", a, <<>>)
JObj(o) == J("obj", "", <<>>, o)

\* Option<T>: None is the empty sequence, Some(x) is <<x>>
None == <<>>
Some(x) == <<x>>

\* Value::get(&str): the member of an object with that key, None otherwise
get(v, key) ==
    IF v.t = "obj" /\ \E i \in 1..Len(v.o) : v.o[i][1] = key
    THEN Some(v.o[CHOOSE i \in 1..Len(v.o) : v.o[i][1] = key][2])
    ELSE None
\* Value::as_object, as seen through keys(): the keys in iteration order
as_object(v) == IF v.t = "obj" THEN Some([i \in 1..Len(v.o) |-> v.o[i][1]]) ELSE None
\* Value::as_array
as_array(v) == IF v.t = "arr" THEN Some(v.a) ELSE None
\* Vec::get(n), n counted from zero
vec_get(arr, n) == IF n + 1 <= Len(arr) THEN Some(arr[n + 1]) ELSE None
\* Value::as_str
as_str(v) == IF v.t = "str" THEN Some(v.s) ELSE None


(***************************************************************************)
(* What the network can answer.                                            *)
(***************************************************************************)
\* the reply of a node to the payload posted by reqwest: the send fails
\* with text x, the body does not decode into the caller's type (the
\* decoder reports text x), or the body decodes to the value x
Reply(t, x) == [t |-> t, x |-> x]
Outcomes ==
    {Reply("senderr", m) : m \in Msgs} \cup
    {Reply("badbody", m) : m \in Msgs} \cup
    {Reply("ok", v) : v \in Decoded}

\* the node urls an ssnlist member can carry
DiscUrls == {"u1", "u2"}
\* keys of the ssnlist object, in the iteration order of the map
Addr(i) == "addr" \o ToString(i)
Filler == JStr("x")
Fill(n) == [i \in 1..n |-> Filler]
\* values of `arguments`: not an array, an array of 5, an array of 6
\* ending in a number or in a url
ArgValues ==
    {JStr("noarray"), JArr(Fill(URL_INDEX))} \cup
    {JArr(Fill(URL_INDEX) \o <<x>>) : x \in {JNum("0")} \cup {JStr(u) : u \in DiscUrls}}
\* values of an ssnlist member: not an object, no `arguments`, `arguments`
MemberValues ==
    {JStr("noobject"), JObj(<<>>)} \cup
    {JObj(<< <<"arguments", a>> >>) : a \in ArgValues}
\* the increasing sequence of the elements of a set of numbers
RECURSIVE Sorted(_)
Sorted(S) ==
    IF S = {} THEN <<>>
    ELSE LET m == CHOOSE x \in S : \A y \in S : x <= y
         IN  <<m>> \o Sorted(S \ {m})
\* ssnlist objects: some of the keys Addr(1)..Addr(MaxMembers), each with
\* a member value, iterated in key order
SsnObjects ==
    UNION { { JObj([i \in 1..Len(Sorted(K)) |-> <<Addr(Sorted(K)[i]), f[Sorted(K)[i]]>>])
              : f \in [K -> MemberValues] }
            : K \in SUBSET (1..MaxMembers) }
SsnValues == {JStr("s"), JArr(<<>>)} \cup SsnObjects
ResultValues ==
    {JStr("r"), JObj(<<>>)} \cup {JObj(<< <<"ssnlist", s>> >>) : s \in SsnValues}
BodyValues ==
    {JArr(<<>>), JObj(<< <<"error", JStr("e")>> >>)} \cup
    {JObj(<< <<"result", r>> >>) : r \in ResultValues}
\* the reply of the seed node to bootstrap: the send fails, the body is
\* not JSON, or the body is the JSON value j
SeedReply(t, j) == [t |-> t, j |-> j]
SeedReplies ==
    {SeedReply("senderr", JNull), SeedReply("badbody", JNull)} \cup
    {SeedReply("json", j) : j \in BodyValues}

(***************************************************************************)
(* ZilliqaJsonRPC::bootstrap, the part after the round trip.               *)
(***************************************************************************)
Ok(x) == [ok |-> TRUE, val |-> x, err |-> Err("", "")]
Fail(e) == [ok |-> FALSE, val |-> <<>>, err |-> e]
ok_or(opt, e) == IF opt = None THEN Fail(e) ELSE Ok(opt[1])

\* zil.rs:58-64  the closure of filter_map: the url of one member
member_url(result, addr) ==
    LET obj == get(result, addr)
        args == IF obj = None THEN None ELSE get(obj[1], "arguments")
        arr == IF args = None THEN None ELSE as_array(args[1])
        v == IF arr = None THEN None ELSE vec_get(arr[1], URL_INDEX)
    IN  IF v = None THEN None ELSE as_str(v[1])

\* filter_map that drops a url it has already collected
RECURSIVE filter_map_dedup(_, _)
filter_map_dedup(keys, result) ==
    IF keys = <<>> THEN <<>>
    ELSE LET front == filter_map_dedup(SubSeq(keys, 1, Len(keys) - 1), result)
             u == member_url(result, keys[Len(keys)])
         IN  IF u # None /\ \E i \in 1..Len(front) : front[i] = u[1]
             THEN front
             ELSE front \o u

\* zil.rs:56-66  keys().filter_map(..).collect()
RECURSIVE filter_map(_, _)
filter_map(keys, result) ==
    IF keys = <<>> THEN <<>>
    ELSE member_url(result, Head(keys)) \o filter_map(Tail(keys), result)

\* bootstrap that does not push node_url
bootstrap_result_noseed(node_url, reply) ==
    IF reply.t = "senderr" THEN Fail(BadRequest)
    ELSE IF reply.t = "badbody" THEN Fail(FailToParseResponse)
    ELSE
      LET response == reply.j
          r1 == ok_or(get(response, "result"), FailToParseResponse)
      IN IF ~r1.ok THEN r1 ELSE
      LET r2 == ok_or(get(r1.val, "ssnlist"), FailToParseResponse)
      IN IF ~r2.ok THEN r2 ELSE
      LET result == r2.val
          r3 == ok_or(as_object(result), FailToParseResponse)
      IN IF ~r3.ok THEN r3 ELSE
         Ok(filter_map(r3.val, result))

\* bootstrap that falls back to the seed alone when ssnlist is no object
bootstrap_result_fallback(node_url, reply) ==
    IF reply.t = "senderr" THEN Fail(BadRequest)
    ELSE IF reply.t = "badbody" THEN Fail(FailToParseResponse)
    ELSE
      LET response == reply.j
          r1 == ok_or(get(response, "result"), FailToParseResponse)
      IN IF ~r1.ok THEN r1 ELSE
      LET r2 == ok_or(get(r1.val, "ssnlist"), FailToParseResponse)
      IN IF ~r2.ok THEN r2 ELSE
      LET result == r2.val
          r3 == ok_or(as_object(result), FailToParseResponse)
      IN IF ~r3.ok THEN Ok(<<node_url>>) ELSE
         Ok(Append(filter_map(r3.val, result), node_url))

\* bootstrap that fails when a member of ssnlist carries no url
bootstrap_result_strict(node_url, reply) ==
    IF reply.t = "senderr" THEN Fail(BadRequest)
    ELSE IF reply.t = "badbody" THEN Fail(FailToParseResponse)
    ELSE
      LET response == reply.j
          r1 == ok_or(get(response, "result"), FailToParseResponse)
      IN IF ~r1.ok THEN r1 ELSE
      LET r2 == ok_or(get(r1.val, "ssnlist"), FailToParseResponse)
      IN IF ~r2.ok THEN r2 ELSE
      LET result == r2.val
          r3 == ok_or(as_object(result), FailToParseResponse)
      IN IF ~r3.ok THEN r3 ELSE
         IF \E i \in 1..Len(r3.val) : member_url(result, r3.val[i]) = None
         THEN Fail(FailToParseResponse)
         ELSE Ok(Append(filter_map(r3.val, result), node_url))

\* zil.rs:39-69  the Result of bootstrap(node_url) when the seed answers reply
bootstrap_result(node_url, reply) ==
    IF reply.t = "senderr" THEN Fail(BadRequest)
    ELSE IF reply.t = "badbody" THEN Fail(FailToParseResponse)
    ELSE
      LET response == reply.j
          r1 == ok_or(get(response, "result"), FailToParseResponse)
      IN IF ~r1.ok THEN r1 ELSE
      LET r2 == ok_or(get(r1.val, "ssnlist"), FailToParseResponse)
      IN IF ~r2.ok THEN r2 ELSE
      LET result == r2.val
          r3 == ok_or(as_object(result), FailToParseResponse)
      IN IF ~r3.ok THEN r3 ELSE
         Ok(Append(filter_map(r3.val, result), node_url))


(***************************************************************************)
(* State.                                                                  *)
(***************************************************************************)
VARIABLES
    client,     \* "none" before construction, "ready" once a client exists,
                \* "failed" when bootstrap returned Err
    nodes,      \* ZilliqaJsonRPC.nodes
    ctor,       \* how the client was built: constructor and its inputs;
                \* the reply of the seed is kept until the client is first used
    boot_sent,  \* the endpoints bootstrap posted a request to, in order
    boot_err,   \* the error of a failed bootstrap
    pc,         \* position of the reqwest call: "idle", "loop", "done"
    net,        \* net[i]: what the node at position i answers in this call
    idx,        \* position in self.nodes.iter(), counted from 1
    error,      \* let mut error  (zil.rs:78)
    k,          \* let mut k      (zil.rs:79)
    tried,      \* the positions a request was posted to in this call
    ret,        \* what the call returned
    pol,        \* the closure handle_error on its own: the captured error
                \* and k, and its last call
    calls,      \* the reqwest calls of several callers on one client
    tree,       \* LocalStorage.tree: the bytes stored under each key
    written,    \* the payload of the last set that succeeded, for each key
    out         \* the last LocalStorage operation and its Result

vars == <<client, nodes, ctor, boot_sent, boot_err, pc, net, idx, error, k, tried, ret,
          pol, calls, tree, written, out>>
call_vars == <<pc, net, idx, error, k, tried, ret>>
ctor_vars == <<client, nodes, ctor, boot_sent, boot_err>>
\* the state of the other parts, which the constructors and the single
\* reqwest call leave alone
side_vars == <<pol, calls, tree, written, out>>

\* Result<SR, ZilliqaErrors> of reqwest; NoRet while the call has not returned
Ret(t, v, e) == [t |-> t, v |-> v, e |-> e]
NoRet == Ret("none", "", Err("", ""))
RetOk(v) == Ret("ok", v, Err("", ""))
RetErr(e) == Ret("err", "", e)

Ctor(path, seed, reply, list) == [path |-> path, seed |-> seed, reply |-> reply, list |-> list]
NoCtor == Ctor("none", "", SeedReply("none", JNull), <<>>)

\* the sequences of length at most n over S
SeqsUpTo(S, n) == UNION {[1..m -> S] : m \in 0..n}
\* the lists handed to from_vec: every short list, and longer lists of one
\* repeated endpoint
VecInputs ==
    SeqsUpTo(Endpoints, MaxNodes) \cup
    {[i \in 1..n |-> e] : n \in 0..MaxUniform, e \in Endpoints}
\* the answers of the nodes of a list of n nodes during one call
Nets(n) ==
    IF n <= MaxNodes THEN [1..n -> Outcomes]
    ELSE {[i \in 1..n |-> r] : r \in Outcomes}

\* handle_error before its first call: the captured error and k as
\* zil.rs:78-79 set them; n counts the calls, new and ret are the argument
\* and the result of the last call, error0 and k0 the state it found
Pol0 ==
    [error |-> NetowrkIsDown, k |-> 0, n |-> 0,
     new |-> NetowrkIsDown, ret |-> TRUE, error0 |-> NetowrkIsDown, k0 |-> 0]

\* the callers that share one client
Callers == {"a", "b"}
\* a caller that has not called reqwest yet
IdleCall ==
    [pc |-> "idle", net |-> <<>>, idx |-> 1, error |-> NetowrkIsDown, k |-> 0,
     tried |-> <<>>, ret |-> NoRet]

\* the keys of the store
Keys == {"key1", "key2"}
\* a payload handed to set or returned by get: a String (s), a Vec<String>
\* (l) or an f64 (s is its value, "NaN" for the NaN)
P(t, s, l) == [t |-> t, s |-> s, l |-> l]
NoPayload == P("none", "", <<>>)
\* the last thing done to the store: op is "set", "get" or "tamper"; ty is
\* the type of the payload set or the type get was asked for, then the
\* Result: the payload of Ok or the variant of LocalStorageError
Out(op, key, ty, ok, val, err) ==
    [op |-> op, key |-> key, ty |-> ty, ok |-> ok, val |-> val, err |-> err]
\* nothing done to the store yet
NoOut == Out("none", "", "", FALSE, NoPayload, "")

Init ==
    /\ pol = Pol0
    /\ calls = [c \in Callers |-> IdleCall]
    /\ tree = [key \in Keys |-> None]
    /\ written = [key \in Keys |-> NoPayload]
    /\ out = NoOut
    /\ client = "none"
    /\ nodes = <<>>
    /\ ctor = NoCtor
    /\ boot_sent = <<>>
    /\ boot_err = Err("", "")
    /\ pc = "idle"
    /\ net = <<>>
    /\ idx = 1
    /\ error = NetowrkIsDown
    /\ k = 0
    /\ tried = <<>>
    /\ ret = NoRet

(***************************************************************************)
(* Constructors.                                                           *)
(***************************************************************************)
\* zil.rs:21-24
new ==
    /\ client = "none"
    /\ nodes' = <<MAIN_URL>>
    /\ client' = "ready"
    /\ ctor' = Ctor("new", "", SeedReply("none", JNull), <<>>)
    /\ UNCHANGED <<boot_sent, boot_err, call_vars>>
    /\ UNCHANGED side_vars

\* zil.rs:26-28
from_vec(list) ==
    /\ client = "none"
    /\ nodes' = list
    /\ client' = "ready"
    /\ ctor' = Ctor("from_vec", "", SeedReply("none", JNull), list)
    /\ UNCHANGED <<boot_sent, boot_err, call_vars>>
    /\ UNCHANGED side_vars

\* bootstrap that posts a second time when the send fails
bootstrap_retries(node_url, reply) ==
    /\ client = "none"
    /\ boot_sent' = IF reply.t = "senderr"
                    THEN boot_sent \o <<node_url, node_url>>
                    ELSE Append(boot_sent, node_url)
    /\ ctor' = Ctor("bootstrap", node_url, reply, <<>>)
    /\ LET r == bootstrap_result(node_url, reply)
       IN IF r.ok
          THEN /\ nodes' = r.val
               /\ client' = "ready"
               /\ UNCHANGED boot_err
          ELSE /\ boot_err' = r.err
               /\ client' = "failed"
               /\ UNCHANGED nodes
    /\ UNCHANGED call_vars
    /\ UNCHANGED side_vars

\* zil.rs:30-70  one post to node_url, then the reply is taken apart
bootstrap(node_url, reply) ==
    /\ client = "none"
    /\ boot_sent' = Append(boot_sent, node_url)
    /\ ctor' = Ctor("bootstrap", node_url, reply, <<>>)
    /\ LET r == bootstrap_result(node_url, reply)
       IN IF r.ok
          THEN /\ nodes' = r.val
               /\ client' = "ready"
               /\ UNCHANGED boot_err
          ELSE /\ boot_err' = r.err
               /\ client' = "failed"
               /\ UNCHANGED nodes
    /\ UNCHANGED call_vars
    /\ UNCHANGED side_vars

(***************************************************************************)
(* ZilliqaJsonRPC::reqwest.                                                *)
(***************************************************************************)
\* handle_error that goes on counting past MAX_ERROR
handle_error_uncapped(new_error, error0, k0) ==
    IF new_error = error0
    THEN [ret |-> TRUE, error |-> new_error, k |-> k0 + 1]
    ELSE [ret |-> TRUE, error |-> new_error, k |-> 1]

\* handle_error that counts a first error but does not store it
handle_error_keeps(new_error, error0, k0) ==
    IF new_error = error0 /\ k0 = MAX_ERROR
    THEN [ret |-> FALSE, error |-> error0, k |-> k0]
    ELSE IF new_error = error0 /\ k0 # MAX_ERROR
    THEN [ret |-> TRUE, error |-> new_error, k |-> k0 + 1]
    ELSE [ret |-> TRUE, error |-> error0, k |-> 1]

\* handle_error that starts counting anew on a repeated error
handle_error_restarts(new_error, error0, k0) ==
    IF new_error = error0 /\ k0 = MAX_ERROR
    THEN [ret |-> FALSE, error |-> error0, k |-> k0]
    ELSE IF new_error = error0 /\ k0 # MAX_ERROR
    THEN [ret |-> TRUE, error |-> new_error, k |-> 1]
    ELSE [ret |-> TRUE, error |-> new_error, k |-> 1]

\* zil.rs:80-93  the closure handle_error, as a function of the new error
\* and of the captured error and k; ret is the bool it returns
handle_error(new_error, error0, k0) ==
    IF new_error = error0 /\ k0 = MAX_ERROR
    THEN [ret |-> FALSE, error |-> error0, k |-> k0]
    ELSE IF new_error = error0 /\ k0 # MAX_ERROR
    THEN [ret |-> TRUE, error |-> new_error, k |-> k0 + 1]
    ELSE [ret |-> TRUE, error |-> new_error, k |-> 1]

\* a loop without the break
breaks_never(handled) == FALSE

\* zil.rs:99-103 and 109-113  `if handle_error(..) { break; } continue;`
\* TRUE when the loop is left
breaks(handled) == handled

\* the call starts, the iterator one node too far
reqwest_start_skips(n) ==
    /\ client = "ready"
    /\ pc = "idle"
    /\ net' = n
    /\ error' = NetowrkIsDown
    /\ k' = 0
    /\ idx' = 2
    /\ tried' = <<>>
    /\ ret' = NoRet
    /\ pc' = "loop"
    /\ ctor' = [ctor EXCEPT !.reply = SeedReply("none", JNull)]
    /\ UNCHANGED <<client, nodes, boot_sent, boot_err>>
    /\ UNCHANGED side_vars

\* zil.rs:76-79  the call starts; n is what the nodes will answer
reqwest_start(n) ==
    /\ client = "ready"
    /\ pc = "idle"
    /\ net' = n
    /\ error' = NetowrkIsDown
    /\ k' = 0
    /\ idx' = 1
    /\ tried' = <<>>
    /\ ret' = NoRet
    /\ pc' = "loop"
    /\ ctor' = [ctor EXCEPT !.reply = SeedReply("none", JNull)]
    /\ UNCHANGED <<client, nodes, boot_sent, boot_err>>
    /\ UNCHANGED side_vars

\* a failed attempt after which the failing node is taken off the list
on_error_evicts(new_error) ==
    LET h == handle_error(new_error, error, k)
    IN /\ error' = h.error
       /\ k' = h.k
       /\ tried' = Append(tried, idx)
       /\ nodes' = SubSeq(nodes, 1, idx - 1) \o SubSeq(nodes, idx + 1, Len(nodes))
       /\ IF breaks(h.ret)
          THEN /\ pc' = "done"
               /\ ret' = RetErr(h.error)
               /\ UNCHANGED idx
          ELSE /\ pc' = "loop"
               /\ idx' = idx + 1
               /\ UNCHANGED ret
       /\ UNCHANGED <<net, client, ctor, boot_sent, boot_err>>
       /\ UNCHANGED side_vars

\* a failed attempt after which the same node is posted to again
on_error_retries(new_error) ==
    LET h == handle_error(new_error, error, k)
    IN /\ error' = h.error
       /\ k' = h.k
       /\ tried' = Append(tried, idx)
       /\ IF breaks(h.ret)
          THEN /\ pc' = "loop"
               /\ UNCHANGED <<idx, ret>>
          ELSE /\ pc' = "loop"
               /\ idx' = idx + 1
               /\ UNCHANGED ret
       /\ UNCHANGED <<net, ctor_vars>>
       /\ UNCHANGED side_vars

\* zil.rs:98-104, 108-114  a failed attempt: the error is handled, then the
\* loop is left (break, then Err(error) at zil.rs:120) or goes on (continue)
on_error(new_error) ==
    LET h == handle_error(new_error, error, k)
    IN /\ error' = h.error
       /\ k' = h.k
       /\ tried' = Append(tried, idx)
       /\ IF breaks(h.ret)
          THEN /\ pc' = "done"
               /\ ret' = RetErr(h.error)
               /\ UNCHANGED idx
          ELSE /\ pc' = "loop"
               /\ idx' = idx + 1
               /\ UNCHANGED ret
       /\ UNCHANGED <<net, ctor_vars>>
       /\ UNCHANGED side_vars

\* zil.rs:96-104  send() fails
send_err ==
    /\ pc = "loop"
    /\ idx <= Len(nodes)
    /\ net[idx].t = "senderr"
    /\ on_error(InvalidRPCReq(net[idx].x))

\* json() fails and is reported as a failed send
json_err_as_send ==
    /\ pc = "loop"
    /\ idx <= Len(nodes)
    /\ net[idx].t = "badbody"
    /\ on_error(InvalidRPCReq(net[idx].x))

\* zil.rs:106-115  json() fails
json_err ==
    /\ pc = "loop"
    /\ idx <= Len(nodes)
    /\ net[idx].t = "badbody"
    /\ on_error(InvalidJson(net[idx].x))

\* the body decodes, but the loop goes on while nodes are left
return_ok_goes_on ==
    /\ pc = "loop"
    /\ idx <= Len(nodes)
    /\ net[idx].t = "ok"
    /\ tried' = Append(tried, idx)
    /\ IF idx < Len(nodes)
       THEN /\ idx' = idx + 1
            /\ UNCHANGED <<ret, pc>>
       ELSE /\ ret' = RetOk(net[idx].x)
            /\ pc' = "done"
            /\ UNCHANGED idx
    /\ UNCHANGED <<net, error, k, ctor_vars>>
    /\ UNCHANGED side_vars

\* zil.rs:96-117  the body decodes: return Ok(res)
return_ok ==
    /\ pc = "loop"
    /\ idx <= Len(nodes)
    /\ net[idx].t = "ok"
    /\ tried' = Append(tried, idx)
    /\ ret' = RetOk(net[idx].x)
    /\ pc' = "done"
    /\ UNCHANGED <<net, idx, error, k, ctor_vars>>
    /\ UNCHANGED side_vars

\* the iterator is exhausted and a fresh error is built for the caller
return_err_fresh ==
    /\ pc = "loop"
    /\ idx > Len(nodes)
    /\ ret' = RetErr(InvalidRPCReq(""))
    /\ pc' = "done"
    /\ UNCHANGED <<net, idx, error, k, tried, ctor_vars>>
    /\ UNCHANGED side_vars

\* the iterator is exhausted and an empty value is returned as Ok
return_err_default ==
    /\ pc = "loop"
    /\ idx > Len(nodes)
    /\ ret' = RetOk("")
    /\ pc' = "done"
    /\ UNCHANGED <<net, idx, error, k, tried, ctor_vars>>
    /\ UNCHANGED side_vars

\* zil.rs:95, 120  the iterator is exhausted: Err(error)
return_err ==
    /\ pc = "loop"
    /\ idx > Len(nodes)
    /\ ret' = RetErr(error)
    /\ pc' = "done"
    /\ UNCHANGED <<net, idx, error, k, tried, ctor_vars>>
    /\ UNCHANGED side_vars

\* the caller has the result; the locals of the call are gone
reqwest_end ==
    /\ pc = "done"
    /\ pc' = "idle"
    /\ net' = <<>>
    /\ idx' = 1
    /\ error' = NetowrkIsDown
    /\ k' = 0
    /\ tried' = <<>>
    /\ ret' = NoRet
    /\ UNCHANGED ctor_vars
    /\ UNCHANGED side_vars

Next ==
    \/ new
    \/ \E list \in VecInputs : from_vec(list)
    \/ \E node_url \in Endpoints, reply \in SeedReplies : bootstrap(node_url, reply)
    \/ \E n \in Nets(Len(nodes)) : reqwest_start(n)
    \/ send_err
    \/ json_err
    \/ return_ok
    \/ return_err
    \/ reqwest_end

\* every attempt returns and the code then takes its next step
Fairness ==
    /\ WF_vars(send_err)
    /\ WF_vars(json_err)
    /\ WF_vars(return_ok)
    /\ WF_vars(return_err)

FairSpec == Init /\ [][Next]_vars /\ Fairness

Spec == Init /\ [][Next]_vars

(***************************************************************************)
(* The closure handle_error on its own, called again and again.            *)
(***************************************************************************)
\* most calls of handle_error in a row
MaxAdmits == 7
\* the errors reqwest hands to handle_error (zil.rs:99, 109)
CallErrors == {InvalidRPCReq(m) : m \in Msgs} \cup {InvalidJson(m) : m \in Msgs}

\* zil.rs:80-93  one call of the closure on the captured error and k
admit(new_error) ==
    /\ pol.n < MaxAdmits
    /\ LET h == handle_error(new_error, pol.error, pol.k)
       IN pol' = [error |-> h.error, k |-> h.k, n |-> pol.n + 1,
                  new |-> new_error, ret |-> h.ret,
                  error0 |-> pol.error, k0 |-> pol.k]
    /\ UNCHANGED <<ctor_vars, call_vars, calls, tree, written, out>>

PolicyNext == \E e \in CallErrors : admit(e)

PolicySpec == Init /\ [][PolicyNext]_vars


(***************************************************************************)
(* Properties of reqwest.                                                  *)
(***************************************************************************)
\* the error a failing reply is reported as
ErrOf(r) == IF r.t = "senderr" THEN InvalidRPCReq(r.x) ELSE InvalidJson(r.x)
Failing(r) == r.t \in {"senderr", "badbody"}
InCall == pc \in {"loop", "done"}
\* every node of a non-empty list fails in this call, all with one error
AllSameFailure ==
    /\ InCall
    /\ Len(nodes) >= 1
    /\ \A i \in 1..Len(nodes) : Failing(net[i]) /\ net[i] = net[1]
\* every node fails in this call, each with an error other than the one of
\* the node before it
AllDistinctFailures ==
    /\ InCall
    /\ Len(nodes) >= 1
    /\ \A i \in 1..Len(nodes) : Failing(net[i])
    /\ \A i \in 2..Len(nodes) : ErrOf(net[i]) # ErrOf(net[i - 1])

\* C1 Failover: when the first node fails to send and the second node
\* answers a body that decodes, the call returns Ok with the value decoded
\* from the second node
C1_Failover ==
    (pc = "done" /\ Len(nodes) >= 2 /\ net[1].t = "senderr" /\ net[2].t = "ok")
        => (ret = RetOk(net[2].x) /\ tried = <<1, 2>>)

\* C2 Heterogeneous tolerance: when every node fails and each error differs
\* from the one before, the call posts to every node in list order and
\* returns the error of the last node
C2_Heterogeneous ==
    (pc = "done" /\ AllDistinctFailures)
        => /\ tried = [i \in 1..Len(nodes) |-> i]
           /\ ret = RetErr(ErrOf(net[Len(nodes)]))

\* C3 Suppression bound: when every node fails with the same error, the
\* call posts at most MAX_ERROR + 1 requests and never more than the list
\* has nodes, and it returns that error
C3_SuppressionBound ==
    AllSameFailure
        => /\ Len(tried) <= MAX_ERROR + 1
           /\ Len(tried) <= Len(nodes)
           /\ pc = "done" => ret = RetErr(ErrOf(net[1]))
\* a list longer than MAX_ERROR + 1 whose nodes all fail alike, call over
C3_Witness ==
    /\ pc = "done"
    /\ AllSameFailure
    /\ Len(nodes) > MAX_ERROR + 1
    /\ ret.t = "err"

\* C4 Short-circuit: when the first node answers a body that decodes, the
\* call returns that value and posts to no other node
C4_ShortCircuit ==
    (InCall /\ Len(nodes) >= 1 /\ net[1].t = "ok")
        => /\ \A j \in 1..Len(tried) : tried[j] = 1
           /\ Len(tried) <= 1
           /\ pc = "done" => (ret = RetOk(net[1].x) /\ tried = <<1>>)
\* a list of several nodes, the first answered, call over
C4_Witness ==
    /\ pc = "done"
    /\ Len(nodes) >= 2
    /\ net[1].t = "ok"
    /\ ret.t = "ok"

\* C5 as claimed: a call that ends in failure returns the error of the node
\* it posted to last, never the initial NetowrkIsDown
C5_LastErrorAlways ==
    (pc = "done" /\ ret.t = "err")
        => /\ ret.e # NetowrkIsDown
           /\ tried # <<>>
           /\ ret.e = ErrOf(net[tried[Len(tried)]])
\* C5 amended: a call on a non-empty list that ends in failure returns the
\* error of the node it posted to last, never NetowrkIsDown; a call on an
\* empty list posts nothing and returns NetowrkIsDown
C5_LastError ==
    (pc = "done" /\ ret.t = "err")
        => IF Len(nodes) >= 1
           THEN /\ ret.e # NetowrkIsDown
                /\ tried # <<>>
                /\ Failing(net[tried[Len(tried)]])
                /\ ret.e = ErrOf(net[tried[Len(tried)]])
           ELSE tried = <<>> /\ ret.e = NetowrkIsDown
\* a failed call on a list of several nodes
C5_Witness ==
    /\ pc = "done"
    /\ ret.t = "err"
    /\ Len(nodes) >= 2
    /\ tried # <<>>

\* C6 Error classification: on a list of one node, a body that does not
\* decode gives one attempt and InvalidJson, a failed send gives one
\* attempt and InvalidRPCReq
C6_Classification ==
    (pc = "done" /\ Len(nodes) = 1)
        => /\ net[1].t = "badbody"
                => (tried = <<1>> /\ ret = RetErr(InvalidJson(net[1].x)))
           /\ net[1].t = "senderr"
                => (tried = <<1>> /\ ret = RetErr(InvalidRPCReq(net[1].x)))
\* a one-node list whose node answered an undecodable body, call over
C6_Witness ==
    /\ pc = "done"
    /\ Len(nodes) = 1
    /\ net[1].t = "badbody"
    /\ ret.t = "err"


(***************************************************************************)
(* Properties of the constructors.                                         *)
(***************************************************************************)
HasKey(v, key) == v.t = "obj" /\ \E i \in 1..Len(v.o) : v.o[i][1] = key
Field(v, key) == v.o[CHOOSE i \in 1..Len(v.o) : v.o[i][1] = key][2]
\* bootstrap has returned and the client, if there is one, is not yet used
Booted == ctor.path = "bootstrap" /\ ctor.reply.t # "none"
\* the seed answered JSON with result.ssnlist present and an object
GoodShape ==
    /\ Booted
    /\ ctor.reply.t = "json"
    /\ HasKey(ctor.reply.j, "result")
    /\ HasKey(Field(ctor.reply.j, "result"), "ssnlist")
    /\ Field(Field(ctor.reply.j, "result"), "ssnlist").t = "obj"
\* the members of ssnlist, as <<key, value>> pairs in iteration order
SsnMembers == Field(Field(ctor.reply.j, "result"), "ssnlist").o
\* a member with an `arguments` array whose 6th element is a string
HasUrl(m) ==
    /\ HasKey(m, "arguments")
    /\ Field(m, "arguments").t = "arr"
    /\ Len(Field(m, "arguments").a) >= 6
    /\ Field(m, "arguments").a[6].t = "str"
UrlOf(m) == Field(m, "arguments").a[6].s

\* C7 as claimed: every constructed client has at least one node
C7_NeverEmpty == client = "ready" => Len(nodes) >= 1
\* C7 amended: the list of a client built by new() or by a successful
\* bootstrap has at least one node; the list of a client built by
\* from_vec(list) is list itself, empty when list is empty
C7_NonEmpty ==
    client = "ready"
        => /\ ctor.path = "new" => nodes = <<MAIN_URL>>
           /\ ctor.path = "bootstrap"
                => (Len(nodes) >= 1 /\ nodes[Len(nodes)] = ctor.seed)
           /\ ctor.path = "from_vec" => nodes = ctor.list
\* bootstrap succeeded with nothing extracted from ssnlist
C7_Witness ==
    /\ client = "ready"
    /\ GoodShape
    /\ SsnMembers # <<>>
    /\ Len(nodes) = 1

\* C8 Discovery result shape: after a successful bootstrap the list is the
\* urls of the members that carry one, in iteration order, duplicates
\* kept, then the seed
C8_ResultShape ==
    (client = "ready" /\ Booted)
        => /\ GoodShape
           /\ LET valid == {i \in 1..Len(SsnMembers) : HasUrl(SsnMembers[i][2])}
                  order == Sorted(valid)
              IN  /\ Len(nodes) = Cardinality(valid) + 1
                  /\ nodes[Len(nodes)] = ctor.seed
                  /\ \A j \in 1..Len(order) : nodes[j] = UrlOf(SsnMembers[order[j]][2])
                  /\ valid = {} => nodes = <<ctor.seed>>
\* two members carry the same url
C8_Witness ==
    /\ client = "ready"
    /\ Booted
    /\ Len(nodes) = 3
    /\ nodes[1] = nodes[2]

\* C9 Discovery atomicity: a JSON reply without `result`, without
\* `result.ssnlist`, or whose ssnlist is not an object makes bootstrap fail
\* with no client and no list
C9_Atomicity ==
    (Booted /\ ctor.reply.t = "json" /\ ~GoodShape)
        => /\ client = "failed"
           /\ nodes = <<>>
           /\ boot_err = FailToParseResponse
\* result and ssnlist are there, ssnlist is not an object
C9_Witness ==
    /\ client = "failed"
    /\ Booted
    /\ ctor.reply.t = "json"
    /\ HasKey(ctor.reply.j, "result")
    /\ HasKey(Field(ctor.reply.j, "result"), "ssnlist")
    /\ Field(Field(ctor.reply.j, "result"), "ssnlist").t # "obj"

\* the four ways a member carries no url
Skipped(m) ==
    \/ ~HasKey(m, "arguments")
    \/ Field(m, "arguments").t # "arr"
    \/ Len(Field(m, "arguments").a) < 6
    \/ Field(m, "arguments").a[6].t # "str"
\* the members that are not skipped, order kept
RECURSIVE Unskipped(_)
Unskipped(ps) ==
    IF ps = <<>> THEN <<>>
    ELSE (IF Skipped(Head(ps)[2]) THEN <<>> ELSE <<Head(ps)>>) \o Unskipped(Tail(ps))
\* the reply with the skipped members taken out of ssnlist
StrippedReply ==
    SeedReply("json", JObj(<< <<"result", JObj(<< <<"ssnlist",
        JObj(Unskipped(SsnMembers)) >> >>) >> >>))

\* C10 Discovery leniency: members without `arguments`, with `arguments`
\* that is no array, with fewer than 6 elements or with a 6th element that
\* is no string do not make bootstrap fail, and the list is the one the
\* same reply gives without those members
C10_Leniency ==
    GoodShape
        => /\ client = "ready"
           /\ Len(nodes) = 1 + Len(Unskipped(SsnMembers))
           /\ nodes = bootstrap_result(ctor.seed, StrippedReply).val
\* a skipped member in front of a member with a url
C10_Witness ==
    /\ client = "ready"
    /\ GoodShape
    /\ Len(SsnMembers) = 2
    /\ Skipped(SsnMembers[1][2])
    /\ ~Skipped(SsnMembers[2][2])
    /\ nodes = <<UrlOf(SsnMembers[2][2]), ctor.seed>>


\* C11 Single round trip: bootstrap posts one request, to the seed; when
\* the send fails or the body is not JSON it returns the error at once,
\* with no second request and no client
C11_SingleRoundTrip ==
    ctor.path = "bootstrap"
        => /\ boot_sent = <<ctor.seed>>
           /\ (Booted /\ ctor.reply.t = "senderr")
                => (client = "failed" /\ boot_err = BadRequest /\ nodes = <<>>)
           /\ (Booted /\ ctor.reply.t = "badbody")
                => (client = "failed" /\ boot_err = FailToParseResponse /\ nodes = <<>>)
\* the send to the seed failed
C11_Witness ==
    /\ client = "failed"
    /\ Booted
    /\ ctor.reply.t = "senderr"
    /\ boot_sent = <<ctor.seed>>

\* the variants reqwest can return as Err
TypedErrors == {"NetowrkIsDown", "InvalidRPCReq", "InvalidJson"}

\* C12 No silent default: a call returns Ok(v) only when the node the loop
\* stopped at was posted to and answered a body decoding to v, every node
\* before it having been posted to and having failed; every other call
\* returns Err with one of the error variants
C12_NoSilentDefault ==
    pc = "done"
        => /\ ret.t \in {"ok", "err"}
           /\ ret.t = "ok"
                => /\ idx \in 1..Len(nodes)
                   /\ tried = [j \in 1..idx |-> j]
                   /\ net[idx] = Reply("ok", ret.v)
                   /\ ret.v \in Decoded
                   /\ \A j \in 1..(idx - 1) : Failing(net[j])
           /\ ret.t = "err" => ret.e.kind \in TypedErrors
\* a one-node list whose node answered, call over
C12_Witness ==
    /\ pc = "done"
    /\ ret.t = "ok"
    /\ Len(nodes) = 1
    /\ tried = <<1>>


\* C17 Abort causes: a call goes from trying node idx to Err only when
\* handle_error refused the failure or idx was the last node (or no node
\* is left)
C17_AbortCauses ==
    [][(pc = "loop" /\ pc' = "done" /\ ret'.t = "err")
        => \/ idx >= Len(nodes)
           \/ ~handle_error(ErrOf(net[idx]), error, k).ret]_vars

\* C18 Exhaustion before threshold: on a list of at most MAX_ERROR nodes
\* that all fail with the same error the call posts to every node and then
\* returns that error
C18_ExhaustFirst ==
    (pc = "done" /\ AllSameFailure /\ Len(nodes) <= MAX_ERROR)
        => /\ tried = [j \in 1..Len(nodes) |-> j]
           /\ ret = RetErr(ErrOf(net[1]))

\* C19 Linear pass: the positions posted to in a call are 1, 2, .. in list
\* order, each once, a prefix of the list; the loop stands right after the
\* last position posted to until the call returns
C19_LinearPass ==
    InCall
        => /\ tried = [j \in 1..Len(tried) |-> j]
           /\ Len(tried) <= Len(nodes)
           /\ pc = "loop" => idx = Len(tried) + 1
\* a call on a three-node list has posted to the first node and is over
C19_Witness ==
    /\ pc = "done"
    /\ Len(nodes) = 3
    /\ tried = <<1>>

\* C20 Termination: a call in its loop reaches Ok or Err, having posted at
\* most as many requests as the list has nodes
C20_Termination ==
    (pc = "loop")
        ~> (pc = "done" /\ ret.t \in {"ok", "err"} /\ Len(tried) <= Len(nodes))
\* a call on a non-empty list is over, one request posted
C20_Witness ==
    /\ pc = "done"
    /\ ret.t \in {"ok", "err"}
    /\ Len(nodes) >= 1
    /\ Len(tried) = 1


\* C21 Registry stability: no step of a dispatch call, successful or
\* failed, changes the node list of the client: from the moment the client
\* is constructed the list stays, element by element and in order, what
\* the constructor made it.
C21_RegistryStable == [][client = "ready" => nodes' = nodes]_vars
\* a failed call on a client built from a full list, the list still the
\* one from_vec was given
C21_Witness ==
    /\ ctor.path = "from_vec"
    /\ Len(ctor.list) = MaxNodes
    /\ pc = "done"
    /\ ret.t = "err"
    /\ nodes = ctor.list

\* C23 Empty registry: a call on a client built by from_vec with an empty
\* list makes no network attempt and returns Err(NetowrkIsDown).
C23_EmptyRegistry ==
    (ctor.path = "from_vec" /\ ctor.list = <<>> /\ pc = "done")
        => /\ tried = <<>>
           /\ ret = RetErr(NetowrkIsDown)
\* such a call, over
C23_Witness ==
    /\ ctor.path = "from_vec"
    /\ ctor.list = <<>>
    /\ pc = "done"
    /\ ret.t = "err"


(***************************************************************************)
(* Properties of handle_error.                                             *)
(***************************************************************************)
\* C16 Suppression policy transitions: a call of handle_error with a new
\* error does one of three things: the error differs from the stored one:
\* it is stored, k becomes 1, true; it is equal and k < MAX_ERROR: k grows
\* by one, true; it is equal and k = MAX_ERROR: false, nothing changes
C16_Transitions ==
    pol.n > 0
        => /\ pol.k0 <= MAX_ERROR
           /\ pol.new # pol.error0
                => (pol.error = pol.new /\ pol.k = 1 /\ pol.ret = TRUE)
           /\ (pol.new = pol.error0 /\ pol.k0 < MAX_ERROR)
                => (pol.error = pol.error0 /\ pol.k = pol.k0 + 1 /\ pol.ret = TRUE)
           /\ (pol.new = pol.error0 /\ pol.k0 = MAX_ERROR)
                => (pol.error = pol.error0 /\ pol.k = pol.k0 /\ pol.ret = FALSE)
\* the same error for the sixth time: refused
C16_Witness ==
    /\ pol.n > MAX_ERROR
    /\ pol.new = pol.error0
    /\ pol.k0 = MAX_ERROR
    /\ pol.ret = FALSE

\* C22 Repeat-counter bounds: k is 0 before the first failure and between 1
\* and MAX_ERROR after every failure; the first failure is admitted with
\* k = 1, since the error stored at the start is NetowrkIsDown, which no
\* attempt produces.
C22_CounterBounds ==
    /\ pol.n = 0 => (pol.k = 0 /\ pol.error = NetowrkIsDown)
    /\ pol.n >= 1 => (1 <= pol.k /\ pol.k <= MAX_ERROR)
    /\ pol.n = 1 => (pol.ret = TRUE /\ pol.k = 1 /\ pol.error = pol.new)
    /\ pol.n >= 1 => pol.new # NetowrkIsDown
\* the counter at MAX_ERROR after as many equal failures
C22_Witness ==
    /\ pol.n = MAX_ERROR
    /\ pol.k = MAX_ERROR
    /\ pol.ret = TRUE


(***************************************************************************)
(* Several callers call reqwest on one client, their attempts interleaved. *)
(* Each caller has its own future, hence its own locals; &self is shared.  *)
(***************************************************************************)
\* longest node list of a shared client
MaxConc == 2
\* the lists a shared client is built from
ConcInputs == {[i \in 1..n |-> MAIN_URL] : n \in 0..MaxConc}
\* the answers of the nodes of a shared client during one call: a failed
\* send, a body that does not decode, a body that decodes
ConcOutcomes == {Reply("senderr", "e1"), Reply("badbody", "e1"), Reply("ok", "v1")}
ConcNets(n) == [1..n -> ConcOutcomes]

\* locals that outlive the call: the next call finds the last error and k
locals_kept(prev) == [error |-> prev.error, k |-> prev.k]

\* zil.rs:78-79  `let mut error`, `let mut k`: the locals of a call that
\* begins; prev is what the caller's previous call left behind
locals(prev) == [error |-> NetowrkIsDown, k |-> 0]

conc_frame == UNCHANGED <<ctor_vars, call_vars, pol, tree, written, out>>

\* zil.rs:72-79  caller c calls reqwest; n is what the nodes will answer
call_start(c, n) ==
    /\ client = "ready"
    /\ calls[c].pc \in {"idle", "done"}
    /\ calls' = [calls EXCEPT ![c] =
                    [pc |-> "loop", net |-> n, idx |-> 1,
                     error |-> locals(calls[c]).error, k |-> locals(calls[c]).k,
                     tried |-> <<>>, ret |-> NoRet]]
    /\ conc_frame

\* zil.rs:98-104, 108-114  a failed attempt of caller c
call_on_error(c, new_error) ==
    LET me == calls[c]
        h == handle_error(new_error, me.error, me.k)
    IN /\ calls' = [calls EXCEPT ![c] =
                      IF breaks(h.ret)
                      THEN [me EXCEPT !.error = h.error, !.k = h.k,
                                      !.tried = Append(me.tried, me.idx),
                                      !.pc = "done", !.ret = RetErr(h.error)]
                      ELSE [me EXCEPT !.error = h.error, !.k = h.k,
                                      !.tried = Append(me.tried, me.idx),
                                      !.idx = me.idx + 1]]
       /\ conc_frame

\* zil.rs:96-104  send() of caller c fails
call_send_err(c) ==
    /\ calls[c].pc = "loop"
    /\ calls[c].idx <= Len(nodes)
    /\ calls[c].net[calls[c].idx].t = "senderr"
    /\ call_on_error(c, InvalidRPCReq(calls[c].net[calls[c].idx].x))

\* zil.rs:106-115  json() of caller c fails
call_json_err(c) ==
    /\ calls[c].pc = "loop"
    /\ calls[c].idx <= Len(nodes)
    /\ calls[c].net[calls[c].idx].t = "badbody"
    /\ call_on_error(c, InvalidJson(calls[c].net[calls[c].idx].x))

\* zil.rs:96-117  the body decodes for caller c
call_return_ok(c) ==
    /\ calls[c].pc = "loop"
    /\ calls[c].idx <= Len(nodes)
    /\ calls[c].net[calls[c].idx].t = "ok"
    /\ calls' = [calls EXCEPT ![c] =
                    [@ EXCEPT !.tried = Append(@, calls[c].idx),
                              !.ret = RetOk(calls[c].net[calls[c].idx].x),
                              !.pc = "done"]]
    /\ conc_frame

\* zil.rs:95, 120  the iterator of caller c is exhausted
call_return_err(c) ==
    /\ calls[c].pc = "loop"
    /\ calls[c].idx > Len(nodes)
    /\ calls' = [calls EXCEPT ![c] =
                    [@ EXCEPT !.ret = RetErr(calls[c].error), !.pc = "done"]]
    /\ conc_frame

ConcNext ==
    \/ new
    \/ \E list \in ConcInputs : from_vec(list)
    \/ \E c \in Callers, n \in ConcNets(Len(nodes)) : call_start(c, n)
    \/ \E c \in Callers : call_send_err(c)
    \/ \E c \in Callers : call_json_err(c)
    \/ \E c \in Callers : call_return_ok(c)
    \/ \E c \in Callers : call_return_err(c)

ConcSpec == Init /\ [][ConcNext]_vars

\* zil.rs:76-120  reqwest run from start to end with nothing in between:
\* its Result and the positions it posts to, from position i on
RECURSIVE run_alone(_, _, _, _, _, _)
run_alone(ns, n, i, e, kk, tr) ==
    IF i > Len(ns) THEN [ret |-> RetErr(e), tried |-> tr]
    ELSE IF n[i].t = "ok" THEN [ret |-> RetOk(n[i].x), tried |-> Append(tr, i)]
    ELSE LET new_error == IF n[i].t = "senderr"
                          THEN InvalidRPCReq(n[i].x) ELSE InvalidJson(n[i].x)
             h == handle_error(new_error, e, kk)
         IN  IF breaks(h.ret)
             THEN [ret |-> RetErr(h.error), tried |-> Append(tr, i)]
             ELSE run_alone(ns, n, i + 1, h.error, h.k, Append(tr, i))

\* C13 Concurrent dispatch independence: with the calls of several callers
\* interleaved on one client, each finished call has the Result and the
\* sequence of positions that the same call gives when run alone against
\* the same answers, and the node list stays as constructed
C13_Independence ==
    /\ client = "ready" => nodes = (IF ctor.path = "new" THEN <<MAIN_URL>> ELSE ctor.list)
    /\ \A c \in Callers :
         calls[c].pc = "done"
           => LET alone == run_alone(nodes, calls[c].net, 1, NetowrkIsDown, 0, <<>>)
              IN  /\ calls[c].ret = alone.ret
                  /\ calls[c].tried = alone.tried
\* two calls in flight at once on a two-node list, with different answers,
\* one of them over
C13_Witness ==
    /\ Len(nodes) = 2
    /\ calls["a"].pc = "done"
    /\ calls["b"].pc = "loop"
    /\ calls["a"].net # calls["b"].net
    /\ calls["a"].ret.t = "err"


(***************************************************************************)
(* LocalStorage (storage/src/lib.rs): set and get on the sled tree.        *)
(* A JSON text is identified with the Value it denotes: serde_json writes  *)
(* one text for a value.                                                   *)
(***************************************************************************)
\* most elements of a Vec<String> payload
MaxItems == 2
\* lib.rs:30  LocalStorage::VERSION
VERSION == 0
\* what SystemTime::now() is, in seconds since the epoch; negative when
\* the clock is before the epoch
Nows == {-1, 1}
Words == {"a", "b"}
\* lib.rs:150  the vector test_read_write stores
TestVec == <<"test1", "test2", "test3">>
\* the payloads handed to set
Payloads ==
    {P("str", w, <<>>) : w \in Words} \cup
    {P("list", "", SubSeq(TestVec, 1, n)) : n \in 0..MaxItems} \cup
    {P("f64", x, <<>>) : x \in {"1.5", "NaN"}}
\* the types get is asked for
PayloadTypes == {"str", "list", "f64"}

\* serde_json::to_string(&payload): a String is a JSON string, a Vec an
\* array, an f64 a number, but a NaN is written as null
payload_to_string(p) ==
    IF p.t = "str" THEN JStr(p.s)
    ELSE IF p.t = "list" THEN JArr([i \in 1..Len(p.l) |-> JStr(p.l[i])])
    ELSE IF p.s = "NaN" THEN JNull
    ELSE JNum(p.s)

\* serde_json::from_value::<ST>: the payload of type ty a JSON value stands
\* for, None when the value is no ST
payload_from_str(ty, j) ==
    IF ty = "str" /\ j.t = "str" THEN Some(P("str", j.s, <<>>))
    ELSE IF ty = "list" /\ j.t = "arr" /\ \A i \in 1..Len(j.a) : j.a[i].t = "str"
    THEN Some(P("list", "", [i \in 1..Len(j.a) |-> j.a[i].s]))
    ELSE IF ty = "f64" /\ j.t = "num" THEN Some(P("f64", j.s, <<>>))
    ELSE None

\* lib.rs:122-128  hex of the SHA-256 of a text; distinct texts are taken to
\* have distinct sums
hash(text) == "sha256:" \o ToString(text)

\* lib.rs:130-138  get_unix_time
get_unix_time(now) == IF now < 0 THEN Fail("StorageTimeWentBackwards") ELSE Ok(now)

\* lib.rs:106-112  serde_json::to_string(&Data { .. }), fields in the order
\* of the struct (lib.rs:14-22)
data_to_string(payload, version, last_update, hashsum) ==
    JObj(<< <<"payload", payload_to_string(payload)>>,
            <<"version", JNum(ToString(version))>>,
            <<"last_update", JNum(ToString(last_update))>>,
            <<"hashsum", JStr(hashsum)>> >>)

\* lib.rs:85-86  serde_json::from_str::<Data<ST>>: None unless the text is
\* an object with the four fields, each of its type
data_from_str(ty, j) ==
    LET pl == get(j, "payload")
        ve == get(j, "version")
        lu == get(j, "last_update")
        hs == get(j, "hashsum")
    IN  IF pl = None \/ ve = None \/ lu = None \/ hs = None THEN None
        ELSE IF ve[1].t # "num" \/ lu[1].t # "num" \/ hs[1].t # "str" THEN None
        ELSE IF payload_from_str(ty, pl[1]) = None THEN None
        ELSE Some([payload |-> payload_from_str(ty, pl[1])[1], hashsum |-> hs[1].s])

\* lib.rs:98-120  what set writes under the key, or the error it returns;
\* io is FALSE when sled fails
set_result(payload, now, io) ==
    LET last_update == get_unix_time(now)
    IN  IF ~last_update.ok THEN last_update
        ELSE IF ~io THEN Fail("StorageWriteError")
        ELSE Ok(data_to_string(payload, VERSION, last_update.val,
                               hash(payload_to_string(payload))))

\* a get that returns the payload without comparing the hashsum
get_result_nohash(some_value, ty, io) ==
    IF ~io THEN Fail("StorageAccessError")
    ELSE IF some_value = None THEN Fail("StorageDataNotFound")
    ELSE LET data == data_from_str(ty, some_value[1])
         IN  IF data = None THEN Fail("StorageDataBroken")
             ELSE Ok(data[1].payload)

\* lib.rs:74-96  the Result of get::<ST> on the bytes found under the key
get_result(some_value, ty, io) ==
    IF ~io THEN Fail("StorageAccessError")
    ELSE IF some_value = None THEN Fail("StorageDataNotFound")
    ELSE LET data == data_from_str(ty, some_value[1])
         IN  IF data = None THEN Fail("StorageDataBroken")
             ELSE IF hash(payload_to_string(data[1].payload)) # data[1].hashsum
             THEN Fail("StorageHashsumError")
             ELSE Ok(data[1].payload)

store_frame == UNCHANGED <<ctor_vars, call_vars, pol, calls>>

\* a set that inserts the record under every key of the tree
LocalStorage_set_all(key, payload, now, io) ==
    LET r == set_result(payload, now, io)
    IN  /\ IF r.ok
           THEN /\ tree' = [k2 \in Keys |-> Some(r.val)]
                /\ written' = [written EXCEPT ![key] = payload]
           ELSE UNCHANGED <<tree, written>>
        /\ out' = Out("set", key, payload.t, r.ok, NoPayload,
                      IF r.ok THEN "" ELSE r.err)
        /\ store_frame

\* lib.rs:98-120  LocalStorage::set
LocalStorage_set(key, payload, now, io) ==
    LET r == set_result(payload, now, io)
    IN  /\ IF r.ok
           THEN /\ tree' = [tree EXCEPT ![key] = Some(r.val)]
                /\ written' = [written EXCEPT ![key] = payload]
           ELSE UNCHANGED <<tree, written>>
        /\ out' = Out("set", key, payload.t, r.ok, NoPayload,
                      IF r.ok THEN "" ELSE r.err)
        /\ store_frame

\* the payload texts and the hashsums a record on disk is altered to
AltPayloads == {JStr("b"), JNum("2.5")}
AltHashes == {hash(JStr("b"))}
\* the record under the key is the one set wrote: neither its payload nor
\* its hashsum was altered since
Intact(key) ==
    IF tree[key] = None THEN TRUE
    ELSE /\ get(tree[key][1], "payload") = Some(payload_to_string(written[key]))
         /\ get(tree[key][1], "hashsum")
              = Some(JStr(hash(payload_to_string(written[key]))))

\* lib.rs:78-81  the bytes tree.get finds are what is on disk: the record
\* under a key is altered outside the program, its payload, its hashsum or
\* both; one record at a time
tamper(key, pl, hs) ==
    /\ \A k2 \in Keys : Intact(k2)
    /\ tree[key] # None
    /\ LET rec == tree[key][1]
           alt == JObj([i \in 1..Len(rec.o) |->
                        IF rec.o[i][1] = "payload" /\ pl # None
                        THEN <<"payload", pl[1]>>
                        ELSE IF rec.o[i][1] = "hashsum" /\ hs # None
                        THEN <<"hashsum", JStr(hs[1])>>
                        ELSE rec.o[i]])
       IN  /\ alt # rec
           /\ tree' = [tree EXCEPT ![key] = Some(alt)]
    /\ out' = Out("tamper", key, "", TRUE, NoPayload, "")
    /\ UNCHANGED written
    /\ store_frame

\* lib.rs:74-96  LocalStorage::get
LocalStorage_get(key, ty, io) ==
    LET r == get_result(tree[key], ty, io)
    IN  /\ out' = Out("get", key, ty, r.ok,
                      IF r.ok THEN r.val ELSE NoPayload,
                      IF r.ok THEN "" ELSE r.err)
        /\ UNCHANGED <<tree, written>>
        /\ store_frame

StoreNext ==
    \/ \E key \in Keys, payload \in Payloads, now \in Nows, io \in BOOLEAN :
         LocalStorage_set(key, payload, now, io)
    \/ \E key \in Keys, ty \in PayloadTypes, io \in BOOLEAN :
         LocalStorage_get(key, ty, io)
    \/ \E key \in Keys, pl \in {None} \cup {Some(x) : x \in AltPayloads},
          hs \in {None} \cup {Some(x) : x \in AltHashes} :
         tamper(key, pl, hs)

StoreSpec == Init /\ [][StoreNext]_vars

(***************************************************************************)
(* LocalStorage properties                                                 *)
(***************************************************************************)
\* the payload's JSON text reads back as a payload equal to it
RoundTrips(p) == payload_from_str(p.t, payload_to_string(p)) = Some(p)
\* the last operation was a get, of the type last stored under its key, the
\* record as set wrote it, and sled answered
GotStored ==
    /\ out.op = "get"
    /\ Intact(out.key)
    /\ out.err # "StorageAccessError"
    /\ written[out.key] # NoPayload
    /\ out.ty = written[out.key].t

\* C15 as stated: whatever the payload, a get of a key returns the payload
\* of the last successful set on that key.
C15_RoundTripAlways ==
    /\ GotStored => out.ok /\ out.val = written[out.key]
    /\ \A key \in Keys :
         written[key] # NoPayload /\ Intact(key)
           => get_result(tree[key], written[key].t, TRUE) = Ok(written[key])

\* C15: when the payload of the last successful set on a key is one whose
\* JSON text reads back as an equal payload, get of that key returns it,
\* whatever was set before on that key and whatever is set on other keys.
C15_RoundTrip ==
    /\ GotStored /\ RoundTrips(written[out.key])
         => out.ok /\ out.val = written[out.key]
    /\ \A key \in Keys :
         written[key] # NoPayload /\ Intact(key) /\ RoundTrips(written[key])
           => get_result(tree[key], written[key].t, TRUE) = Ok(written[key])

\* a get returned what was stored under its key while the other key holds
\* another payload
C15_Witness ==
    /\ GotStored /\ out.ok /\ out.val = written[out.key]
    /\ \E key \in Keys :
         key # out.key /\ written[key] # NoPayload /\ written[key] # out.val

\* the last operation was a get that sled answered
Got == out.op = "get" /\ out.err # "StorageAccessError"
\* the record under the key of the last get, as it is on disk
Stored == tree[out.key][1]
\* a payload comes back only when the hashsum of the record is the hash of
\* the text of that payload
OnlyIfHashed ==
    (Got /\ out.ok)
        => get(Stored, "hashsum") = Some(JStr(hash(payload_to_string(out.val))))
\* a key never set yields StorageDataNotFound
NeverSet ==
    (Got /\ written[out.key] = NoPayload)
        => (~out.ok /\ out.err = "StorageDataNotFound")
\* a get that fails changes nothing in the store
FailedGetFrame == (out'.op = "get" /\ ~out'.ok) => tree' = tree
\* the last get asked for the type last set under its key, and the record
\* was altered since
GotAltered ==
    /\ Got
    /\ written[out.key] # NoPayload
    /\ out.ty = written[out.key].t
    /\ ~Intact(out.key)

\* C24 as stated: get returns a payload only when the hashsum of the record
\* is the hash of the re-serialised payload; every record whose payload or
\* hashsum was altered yields StorageHashsumError; a key never set yields
\* StorageDataNotFound; a failed get leaves the store unchanged.
C24_IntegrityAlways ==
    /\ [](OnlyIfHashed /\ NeverSet)
    /\ [](GotAltered => (~out.ok /\ out.err = "StorageHashsumError"))
    /\ [][FailedGetFrame]_vars

\* C24: get returns a payload only when the hashsum of the record is the
\* hash of the re-serialised payload; an altered record that still reads as
\* a Data of the type asked for yields StorageHashsumError when its hashsum
\* is not the hash of its payload and its payload otherwise, and one that
\* no longer reads as such a Data yields StorageDataBroken; a key never set
\* yields StorageDataNotFound; a failed get leaves the store unchanged.
C24_Integrity ==
    /\ [](OnlyIfHashed /\ NeverSet)
    /\ [](GotAltered =>
            LET data == data_from_str(out.ty, Stored)
            IN  IF data = None
                THEN ~out.ok /\ out.err = "StorageDataBroken"
                ELSE IF Some(JStr(hash(payload_to_string(data[1].payload))))
                          # get(Stored, "hashsum")
                THEN ~out.ok /\ out.err = "StorageHashsumError"
                ELSE out.ok /\ out.val = data[1].payload)
    /\ [][FailedGetFrame]_vars
\* a get of a record whose payload was altered to another of its type, the
\* hashsum left as set wrote it: StorageHashsumError
C24_Witness ==
    /\ GotAltered
    /\ out.err = "StorageHashsumError"
    /\ get(Stored, "payload") # Some(payload_to_string(written[out.key]))
    /\ get(Stored, "hashsum") = Some(JStr(hash(payload_to_string(written[out.key]))))

=============================================================================
